---------------------------- MODULE Spec2Model ----------------------------
(***************************************************************************)
(* Model of ircbotframe.py: the ircBot connection engine (run loop,         *)
(* sched.scheduler passes, connect/close, keepalive ping, output queue,     *)
(* input buffer, line parser and the identify (WHOIS) correlator).          *)
(*                                                                          *)
(* Text is modelled as sequences of one-character strings, so that the      *)
(* Python string operations (find, slicing, strip, split, startswith) are   *)
(* computed as the code computes them.                                      *)
(*                                                                          *)
(* Time is counted in units of 0.01 s (the delay of the receive poll).      *)
(* Scheduler entries hold their due time relative to the current instant    *)
(* (time.monotonic() - now); letting d units pass subtracts d from each.    *)
(* The thread of run() takes one step per scheduled action; a call of the   *)
(* host (send, identify, bind, stop) is one step between two of them.       *)
(*                                                                          *)
(* Specifications: Spec and SpecIdentify run the whole engine; SpecClose    *)
(* and SpecUnlock run it with close() and the handling of a 318 taken in    *)
(* two steps, so that a host thread can run in between; SpecLog,            *)
(* SpecFramer, SpecParser and SpecGetLine apply the channel log, the input  *)
(* buffer, the line parser and getLine() to inputs drawn from bounded sets. *)
(***************************************************************************)
EXTENDS Integers, Sequences, FiniteSets, TLC

(***************************************************************************)
(* Python string primitives                                                 *)
(***************************************************************************)
Min(a, b) == IF a < b THEN a ELSE b

Max(a, b) == IF a > b THEN a ELSE b

Whitespace == {" ", "\t", "\r", "\n"}

\* s[i:j] for 0 <= i, 0 <= j
PySlice(s, i, j) == SubSeq(s, i + 1, Min(j, Len(s)))

\* s[i:] for 0 <= i
PyFrom(s, i) == SubSeq(s, i + 1, Len(s))

\* s.find(c) for a one-character c: the 0-based index of the first c, or -1
PyFind(s, c) ==
    IF \E k \in 1..Len(s) : s[k] = c
    THEN (CHOOSE k \in 1..Len(s) : s[k] = c /\ \A j \in 1..(k - 1) : s[j] # c) - 1
    ELSE -1

\* c in s
PyIn(c, s) == \E k \in 1..Len(s) : s[k] = c

\* s.startswith(p)
StartsWith(s, p) == Len(s) >= Len(p) /\ SubSeq(s, 1, Len(p)) = p

\* s.endswith(p)
EndsWith(s, p) == Len(s) >= Len(p) /\ SubSeq(s, Len(s) - Len(p) + 1, Len(s)) = p

RECURSIVE LStrip(_)
LStrip(s) == IF s # <<>> /\ Head(s) \in Whitespace THEN LStrip(Tail(s)) ELSE s

RECURSIVE RStrip(_)
RStrip(s) ==
    IF s # <<>> /\ s[Len(s)] \in Whitespace THEN RStrip(SubSeq(s, 1, Len(s) - 1)) ELSE s

\* s.strip()
Strip(s) == RStrip(LStrip(s))

\* s.split(c) for a one-character separator c (empty fields are kept)
RECURSIVE SplitCh(_, _)
SplitCh(s, c) ==
    LET i == PyFind(s, c)
    IN  IF i = -1 THEN <<s>> ELSE <<PySlice(s, 0, i)>> \o SplitCh(PyFrom(s, i + 1), c)

\* the 0-based index of the first "\r\n" in s, or -1
FindCRLF(s) ==
    IF \E k \in 1..(Len(s) - 1) : s[k] = "\r" /\ s[k + 1] = "\n"
    THEN (CHOOSE k \in 1..(Len(s) - 1) :
              /\ s[k] = "\r" /\ s[k + 1] = "\n"
              /\ \A j \in 1..(k - 1) : ~(s[j] = "\r" /\ s[j + 1] = "\n")) - 1
    ELSE -1

\* s.split("\r\n")
RECURSIVE SplitCRLF(_)
SplitCRLF(s) ==
    LET i == FindCRLF(s)
    IN  IF i = -1 THEN <<s>> ELSE <<PySlice(s, 0, i)>> \o SplitCRLF(PyFrom(s, i + 2))

\* s.split(): fields separated by runs of whitespace, no empty fields
RECURSIVE SplitWs(_)
SplitWs(s) ==
    LET t == LStrip(s)
        n == IF \E k \in 1..Len(t) : t[k] \in Whitespace
             THEN (CHOOSE k \in 1..Len(t) :
                       t[k] \in Whitespace /\ \A j \in 1..(k - 1) : t[j] \notin Whitespace) - 1
             ELSE Len(t)
    IN  IF t = <<>> THEN <<>> ELSE <<PySlice(t, 0, n)>> \o SplitWs(PyFrom(t, n))

(***************************************************************************)
(* The texts of the session                                                 *)
(***************************************************************************)
CRLF == <<"\r", "\n">>

W_PING == <<"P", "I", "N", "G">>

W_PONG == <<"P", "O", "N", "G">>

W_NICK == <<"N", "I", "C", "K">>

W_USER == <<"U", "S", "E", "R">>

W_WHOIS == <<"W", "H", "O", "I", "S">>

W_PRIVMSG == <<"P", "R", "I", "V", "M", "S", "G">>

W_ACTION == <<"A", "C", "T", "I", "O", "N">>

W_376 == <<"3", "7", "6">>

W_307 == <<"3", "0", "7">>

W_330 == <<"3", "3", "0">>

W_318 == <<"3", "1", "8">>

\* constructor arguments: ircBot(network, port, name, description)
network == <<"s">>

name == <<"n">>

desc == <<"d">>

SPACE == <<" ">>

\* stands for the CTCP delimiter, the character \x01
CtcpMark == <<"~">>

COLON == <<":">>

\* nicks the host verifies with identify(), and the nick of a WHOIS the host sends raw
IdentNicks == {<<"a">>, <<"b">>}

RawNick == <<"c">>

\* raw lines the host passes to send()
RawLines == {W_WHOIS \o SPACE \o RawNick}

\* the parts of lines ":prefix CMD p1 p2 :trailing" sent by a user: prefixes
\* nick!user@host and nick!user, commands, params and trailing texts (empty, with
\* a space, a colon or an "@" inside, and a CTCP ACTION)
Prefixes == {<<"n", "!", "u", "@", "h">>, <<"n", "!", "u">>}

W_KICK == <<"K", "I", "C", "K">>

Commands == {W_PRIVMSG, W_KICK}

Params == {<<"#", "c">>, <<"b">>}

ActionTrailing == CtcpMark \o W_ACTION \o SPACE \o <<"w">> \o CtcpMark

Trailings == {<<>>, <<"t">>, <<"t", " ", "u">>, <<"t", ":", "u">>, <<"t", "@", "u">>,
              ActionTrailing}

\* the parts of lines sent by the server itself: no "!" and no "@" anywhere
ServerPrefixes == {<<"s">>, <<"i", "r", "c", ".", "x">>}

W_NOTICE == <<"N", "O", "T", "I", "C", "E">>

ServerCommands == {W_376, W_NOTICE}

ServerTrailings == {<<>>, <<"t">>, <<"t", " ", "u">>, <<"t", ":", "u">>}

\* " ".join(words)
RECURSIVE Joined(_)
Joined(words) ==
    IF Len(words) = 1 THEN words[1] ELSE words[1] \o SPACE \o Joined(Tail(words))

WireLine(prefix, cmd, params, trailing) ==
    COLON \o prefix \o SPACE \o cmd \o SPACE \o Joined(params) \o SPACE \o COLON \o trailing

\* the two bytes of a two-byte UTF-8 character, and the character they encode
LeadByte == "0xC3"

ContByte == "0xA9"

TwoByteChar == "U+00E9"

\* the bytes streams are made of
Bytes == {"a", "\r", "\n", LeadByte, ContByte}

\* after the last byte of a stream: the peer has closed it
EndOfStream == "EOF"

\* the channel the host joins, and what is said in it
Chan == <<"#", "c">>

W_JOIN == <<"J", "O", "I", "N">>

\* senders of channel messages, as nick!user@host prefixes
ChanSenders == {<<"u", "!", "i", "@", "h">>, <<"v", "!", "i", "@", "h">>}

\* a channel PRIVMSG, plain or as a CTCP ACTION
ChanLine(sender, action) ==
    COLON \o sender \o SPACE \o W_PRIVMSG \o SPACE \o Chan \o SPACE \o COLON
          \o (IF action THEN CtcpMark \o W_ACTION \o SPACE \o <<"w">> \o CtcpMark ELSE <<"x">>)

ChanLines == {ChanLine(sender, action) : sender \in ChanSenders, action \in BOOLEAN}

\* messages the host passes to say()
SayMessages == {<<"y">>, <<"z">>}

\* tokens of the PING lines the server originates
PingTokens == {<<"t">>}

\* lines written by the engine
NickLine == W_NICK \o SPACE \o name

UserLine == W_USER \o SPACE \o name \o <<" ", "0", " ", "*", " ", ":">> \o desc

WhoisLine(nick) == W_WHOIS \o SPACE \o nick

PingLine == W_PING \o SPACE \o network

\* lines written by the server, each ended by CRLF on the stream
WelcomeLine == COLON \o network \o SPACE \o W_376 \o SPACE \o name \o <<" ", ":", "e">>

EndOfWhoisLine(nick) ==
    COLON \o network \o SPACE \o W_318 \o SPACE \o name \o SPACE \o nick \o <<" ", ":", "e">>

LoggedInLine(nick) ==
    COLON \o network \o SPACE \o W_330 \o SPACE \o name \o SPACE \o nick
          \o <<" ", "k", " ", ":", "l">>

PongLine == COLON \o network \o SPACE \o W_PONG \o SPACE \o network \o SPACE \o COLON \o network

ServerPingLine(tok) == W_PING \o SPACE \o COLON \o tok

\* the notice a server may greet a new connection with
GreetLine == COLON \o network \o <<" ", "N", "O", "T", "I", "C", "E", " ", "*", " ", ":", "e">>

(***************************************************************************)
(* The line parser: the first half of ircBot.__processLine                  *)
(***************************************************************************)
LastColon(line) ==
    IF PyIn("@", line)
    THEN LET at == PyFind(line, "@")
             gap == PyFind(PyFrom(line, at), " ") + at + 1
         IN  PyFind(PyFrom(line, gap + 1), ":") + 2 + gap
    ELSE PyFind(PyFrom(line, 1), ":") + 1

Headers(line) ==
    IF ~PyIn(":", PyFrom(line, 1))
    THEN SplitCh(Strip(PyFrom(line, 1)), " ")
    ELSE SplitCh(Strip(PySlice(line, 1, LastColon(line) - 1)), " ")

Message(line) ==
    IF ~PyIn(":", PyFrom(line, 1)) THEN <<>> ELSE PyFrom(line, LastColon(line))

\* message.startswith('\001ACTION ') and message.endswith('\001'), under PRIVMSG
IsAction(headers, message) ==
    /\ headers[2] = W_PRIVMSG
    /\ StartsWith(message, CtcpMark \o W_ACTION \o SPACE)
    /\ EndsWith(message, CtcpMark)

MsgType(headers, message) == IF IsAction(headers, message) THEN W_ACTION ELSE headers[2]

Text(headers, message) ==
    IF IsAction(headers, message) THEN PySlice(message, 8, Len(message) - 1) ELSE message

Sender(headers) == PySlice(headers[1], 0, PyFind(headers[1], "!"))

\* the arguments __processLine hands to __callBind for headers and message:
\* (msgtype, sender, headers[2:], message), or nothing for fewer than 2 headers
Parsed(headers, message) ==
    IF Len(headers) < 2
    THEN [parsed |-> TRUE, dispatched |-> FALSE]
    ELSE IF PyIn("!", headers[1])
    THEN [parsed |-> TRUE, dispatched |-> TRUE, msgtype |-> MsgType(headers, message),
          sender |-> Sender(headers), headers |-> PyFrom(headers, 2),
          message |-> Text(headers, message)]
    ELSE [parsed |-> TRUE, dispatched |-> TRUE, msgtype |-> headers[2],
          sender |-> headers[1], headers |-> PyFrom(headers, 2), message |-> message]

Event(line) == Parsed(Headers(line), Message(line))

(***************************************************************************)
(* Bounds of the model                                                      *)
(***************************************************************************)
\* calls of connect() in one run
MaxConnects == 2

\* socket operations (connect, send, recv) the network lets fail in one run
MaxFailures == 1

\* calls of identify() by the host
MaxIdentify == 2

\* calls of send() by the host
MaxSends == 1

\* PING lines the server originates
MaxServerPings == 1

\* the most params of a line handed to the parser
MaxParams == 2

\* the longest byte stream fed to the input buffer
MaxStream == 4

\* the largest default_log_length the host configures (the code's default is 200)
MaxLogLength == 2

\* appends to a channel's log are followed while the log is no longer than this
MaxLog == 2

(***************************************************************************)
(* Times, in units of 0.01 s                                                *)
(***************************************************************************)
\* self.__sched.enter(0.01, priority=1, action=self.__periodicRecv)
RecvDelay == 1

\* self.__sched.enter(1, priority=10, action=self.__periodicSend)
SendTick == 100

\* self.irc.settimeout(1.0)
SocketTimeout == 100

\* The configuration attributes of ircBot, which the host may set. Their defaults
\* are 30 s, 30 s, 10 s and 60 s; the model runs the engine configured with
\* 3 s, 3 s, 2 s and 6 s, which keeps their order and that of the two fixed times.
connect_timeout == 300

reconnect_interval == 300

ping_timeout == 200

ping_interval == 600

(***************************************************************************)
(* State                                                                    *)
(***************************************************************************)
VARIABLES
    keepGoing,              \* self.keepGoing
    irc,                    \* self.irc is a socket (TRUE) or None (FALSE)
    outBuf,                 \* self.outBuf: None, or an ircOutputBuffer with its queue
    inBuf,                  \* self.inBuf: None, or an ircInputBuffer (buffer, lines)
    connected,              \* self.connected
    unansweredPing,         \* self.__unansweredPing
    identifyNickCommands,   \* self.identifyNickCommands: records (nick, id of its callbacks)
    identifyLock,           \* self.identifyLock
    binds,                  \* self.binds: command -> handler
    channel_data,           \* self.channel_data: channel -> (log, log_length)
    sched,                  \* self.__sched: the event queue, in the order it runs
    pc,                     \* where the thread of run() stands
    ret,                    \* where connect() returns to
    fatal,                  \* the exception that ended run(), or "none"
    netIn,                  \* bytes the server has sent that recv() has not returned yet
    written,                \* the lines the last step wrote to the socket, in order
    fails,                  \* socket failures the network may still produce
    connects,               \* calls of connect() so far
    nextId,                 \* the id of the next identify() record
    sends,                  \* calls of send() by the host so far
    serverPings,            \* PING lines the server has originated so far
    calls,                  \* id -> how often onAccept and onReject were invoked
    idNick,                 \* id -> the nick identify() was called with
    seen,                   \* id -> class of the first WHOIS numeric for its nick processed since
    whoisOut,               \* nicks of the correlator's WHOIS queued or sent and not answered
    drainAge,               \* time since the queue drain last wrote (at most SendTick)
    drainGap,               \* the drainAge found by the last write of the queue drain
    hostRaised,             \* a call of the host raised an exception
    ioError,                \* the socket operation that failed in the last step, or "none"
    pongSeen,               \* a PONG line was received since the last keepalive PING was sent
    stream,                 \* every byte the peer sends on the stream the input buffer frames
    input,                  \* the line handed to the parser
    event,                  \* what the parser hands to __callBind for it, once parsed
    recvParity              \* the number of recv() calls that returned no bytes, modulo 2

\* the engine and its network
engine == <<keepGoing, irc, outBuf, inBuf, connected, unansweredPing, identifyNickCommands,
            identifyLock, binds, channel_data, sched, pc, ret, fatal, netIn, written, fails,
            connects, nextId, sends, serverPings, calls, idNick, seen, whoisOut, drainAge,
            drainGap, hostRaised, ioError, pongSeen>>

vars == <<engine, stream, input, event, recvParity>>

NoOutBuf == [present |-> FALSE, queue |-> <<>>]

NoInBuf == [present |-> FALSE, buffer |-> <<>>, lines |-> <<>>]

\* ircInputBuffer.__init__
NewInBuf == [present |-> TRUE, buffer |-> <<>>, lines |-> <<>>]

\* no line parsed yet
NoEvent == [parsed |-> FALSE]

Ids == 1..MaxIdentify

\* the engine's state as one value, with nothing written yet in this step
Bot ==
    [keepGoing |-> keepGoing, irc |-> irc, outBuf |-> outBuf, inBuf |-> inBuf,
     connected |-> connected, unansweredPing |-> unansweredPing,
     identifyNickCommands |-> identifyNickCommands, identifyLock |-> identifyLock,
     binds |-> binds, channel_data |-> channel_data, sched |-> sched, fatal |-> fatal,
     netIn |-> netIn, written |-> <<>>, fails |-> fails, calls |-> calls, seen |-> seen,
     idNick |-> idNick, whoisOut |-> whoisOut, drainAge |-> drainAge, drainGap |-> drainGap,
     hostRaised |-> hostRaised, ioError |-> "none", pongSeen |-> pongSeen, result |-> TRUE]

CommitEngine(b) ==
    /\ keepGoing' = b.keepGoing
    /\ irc' = b.irc
    /\ outBuf' = b.outBuf
    /\ inBuf' = b.inBuf
    /\ connected' = b.connected
    /\ unansweredPing' = b.unansweredPing
    /\ identifyNickCommands' = b.identifyNickCommands
    /\ identifyLock' = b.identifyLock
    /\ binds' = b.binds
    /\ channel_data' = b.channel_data
    /\ sched' = b.sched
    /\ fatal' = b.fatal
    /\ netIn' = b.netIn
    /\ written' = b.written
    /\ fails' = b.fails
    /\ calls' = b.calls
    /\ seen' = b.seen
    /\ idNick' = b.idNick
    /\ whoisOut' = b.whoisOut
    /\ drainAge' = b.drainAge
    /\ drainGap' = b.drainGap
    /\ hostRaised' = b.hostRaised
    /\ ioError' = b.ioError
    /\ pongSeen' = b.pongSeen

Commit(b) ==
    /\ CommitEngine(b)
    /\ UNCHANGED <<stream, input, event, recvParity>>

Raise(b, exc) == [b EXCEPT !.fatal = exc]

Ok(b) == b.fatal = "none"

(***************************************************************************)
(* sched.scheduler                                                          *)
(***************************************************************************)
\* scheduler.enter(delay, priority, action): the queue is ordered by (time, priority, sequence)
\* the number of entries of q that run before a new entry (delay, priority)
Before(q, delay, priority) ==
    Cardinality({i \in 1..Len(q) :
        \/ q[i].time < delay
        \/ q[i].time = delay /\ q[i].priority <= priority})

InsertAt(q, k, e) == SubSeq(q, 1, k) \o <<e>> \o SubSeq(q, k + 1, Len(q))

Enter(b, delay, priority, action) ==
    [b EXCEPT !.sched = InsertAt(@, Before(@, delay, priority),
                                 [time |-> delay, priority |-> priority, action |-> action])]

\* d units of time pass
Elapse(b, d) ==
    [b EXCEPT !.sched = [i \in 1..Len(b.sched) |-> [b.sched[i] EXCEPT !.time = @ - d]],
              !.drainAge = Min(@ + d, SendTick)]

(***************************************************************************)
(* The server, as seen through the socket                                   *)
(***************************************************************************)
\* what the server sends back for one line it receives; resp is its choice to
\* welcome / to report the nick as logged in / to answer the PING
ServerReply(string, resp) ==
    IF StartsWith(string, W_USER \o SPACE)
    THEN IF resp THEN WelcomeLine \o CRLF ELSE <<>>
    ELSE IF StartsWith(string, W_WHOIS \o SPACE)
    THEN (IF resp THEN LoggedInLine(PyFrom(string, 6)) \o CRLF ELSE <<>>)
             \o EndOfWhoisLine(PyFrom(string, 6)) \o CRLF
    ELSE IF StartsWith(string, W_PING \o SPACE)
    THEN IF resp THEN PongLine \o CRLF ELSE <<>>
    ELSE <<>>

(***************************************************************************)
(* ircOutputBuffer                                                          *)
(***************************************************************************)
\* a sendImmediately that appends to the queue instead of writing to the socket
SendImmediately_Queued(b, string, ok, resp) ==
    [b EXCEPT !.outBuf.queue = Append(@, string), !.result = TRUE]

\* ok: the socket accepts the write
SendImmediately(b, string, ok, resp) ==
    IF ok
    THEN [b EXCEPT !.written = Append(@, string),
                   !.netIn = @ \o ServerReply(string, resp),
                   !.result = TRUE]
    ELSE [b EXCEPT !.fails = @ - 1, !.ioError = "send", !.result = FALSE]

SendBuffered(b, string) ==
    [b EXCEPT !.outBuf.queue = Append(@, string), !.result = TRUE]

\* the drain has written a line, age after the one before it
Drained(b, age) == IF b.result THEN [b EXCEPT !.drainGap = age, !.drainAge = 0] ELSE b

SendFromQueue(b, ok, resp) ==
    IF b.outBuf.queue = <<>>
    THEN [b EXCEPT !.result = TRUE]
    ELSE Drained(SendImmediately([b EXCEPT !.outBuf.queue = Tail(@)],
                                 Head(b.outBuf.queue), ok, resp),
                 b.drainAge)

(***************************************************************************)
(* ircInputBuffer                                                           *)
(***************************************************************************)
\* bytes(...).decode("utf-8") succeeds: every lead byte has its continuation byte
\* and no continuation byte stands alone
RECURSIVE Utf8Valid(_)
Utf8Valid(bytes) ==
    IF bytes = <<>> THEN TRUE
    ELSE IF bytes[1] = LeadByte
    THEN Len(bytes) >= 2 /\ bytes[2] = ContByte /\ Utf8Valid(SubSeq(bytes, 3, Len(bytes)))
    ELSE IF bytes[1] = ContByte THEN FALSE
    ELSE Utf8Valid(Tail(bytes))

\* the text bytes(...).decode("utf-8") returns for valid bytes
RECURSIVE Decode(_)
Decode(bytes) ==
    IF bytes = <<>> THEN <<>>
    ELSE IF bytes[1] = LeadByte THEN <<TwoByteChar>> \o Decode(SubSeq(bytes, 3, Len(bytes)))
    ELSE <<bytes[1]>> \o Decode(Tail(bytes))

\* the last three statements of __recv, for the text data
Framed(buf, data) ==
    [buf EXCEPT !.buffer = SplitCRLF(data)[Len(SplitCRLF(data))],
                !.lines = @ \o SubSeq(SplitCRLF(data), 1, Len(SplitCRLF(data)) - 1)]

\* __recv with the socket returning the bytes raw: on UnicodeDecodeError data is ''
Recv(buf, raw) ==
    Framed(buf, IF Utf8Valid(raw) THEN buf.buffer \o Decode(raw) ELSE <<>>)

(***************************************************************************)
(* ircBot: private functions                                                *)
(***************************************************************************)
\* close(): self.outBuf = None; self.inBuf = None
CloseBuffers(b) == [b EXCEPT !.outBuf = NoOutBuf, !.inBuf = NoInBuf]

\* close(): self.irc.close(); self.irc = None; self.connected = False
CloseSocket(b) ==
    IF ~b.irc
    THEN Raise(b, "AttributeError: close() without a socket")
    ELSE [b EXCEPT !.irc = FALSE, !.connected = FALSE, !.netIn = <<>>, !.whoisOut = <<>>]

\* close(): the two buffers are dropped before self.irc.close() is evaluated
Close(b) == CloseSocket(CloseBuffers(b))

\* __identAccept: the while loop from index i on
RECURSIVE IdentAcceptFrom(_, _, _)
IdentAcceptFrom(b, nick, i) ==
    IF i > Len(b.identifyNickCommands)
    THEN b
    ELSE IF nick = b.identifyNickCommands[i].nick
    THEN IdentAcceptFrom(
             [b EXCEPT !.calls[b.identifyNickCommands[i].id].accept = @ + 1,
                       !.identifyNickCommands = SubSeq(@, 1, i - 1) \o SubSeq(@, i + 1, Len(@))],
             nick, i)
    ELSE IdentAcceptFrom(b, nick, i + 1)

\* an __identAccept that invokes the callbacks and leaves the records in the list
IdentAccept_NoPop(b, nick) ==
    [b EXCEPT !.calls = [id \in Ids |->
        IF \E k \in 1..Len(b.identifyNickCommands) :
               /\ b.identifyNickCommands[k].id = id
               /\ b.identifyNickCommands[k].nick = nick
        THEN [b.calls[id] EXCEPT !.accept = @ + 1]
        ELSE b.calls[id]]]

IdentAccept(b, nick) == IdentAcceptFrom(b, nick, 1)

\* __identReject: the while loop from index i on
RECURSIVE IdentRejectFrom(_, _, _)
IdentRejectFrom(b, nick, i) ==
    IF i > Len(b.identifyNickCommands)
    THEN b
    ELSE IF nick = b.identifyNickCommands[i].nick
    THEN IdentRejectFrom(
             [b EXCEPT !.calls[b.identifyNickCommands[i].id].reject = @ + 1,
                       !.identifyNickCommands = SubSeq(@, 1, i - 1) \o SubSeq(@, i + 1, Len(@))],
             nick, i)
    ELSE IdentRejectFrom(b, nick, i + 1)

IdentReject(b, nick) == IdentRejectFrom(b, nick, 1)

\* __handlePong
HandlePong(b) == [b EXCEPT !.unansweredPing = FALSE]

\* __callBind: a handler of the host has no effect on the engine
CallBind(b, msgtype) ==
    IF msgtype \in DOMAIN b.binds /\ b.binds[msgtype] = "__handlePong"
    THEN HandlePong(b)
    ELSE b

\* s[-n:]
PyLast(s, n) == IF n = 0 THEN s ELSE SubSeq(s, Max(Len(s) - n + 1, 1), Len(s))

\* log()
\* if len(log) > log_length: log = log[-log_length:]
Trimmed(log, n) == IF Len(log) > n THEN PyLast(log, n) ELSE log

Log(b, channel, msgtype, sender, headers, message) ==
    IF channel \in DOMAIN b.channel_data
    THEN [b EXCEPT !.channel_data[channel].log =
                       Trimmed(Append(@, <<msgtype, sender, headers, message>>),
                               b.channel_data[channel].log_length)]
    ELSE b

\* the correlator's WHOIS for nick has been answered by its 318
Without(out, k) == SubSeq(out, 1, k - 1) \o SubSeq(out, k + 1, Len(out))

Answered(out, nick) ==
    IF PyIn(nick, out) THEN Without(out, PyFind(out, nick) + 1) ELSE out

\* the branch of __processLine for a sender with "!"
ProcessUserLine(b, headers, message) ==
    IF headers[2] # W_PRIVMSG
    THEN CallBind(b, headers[2])
    ELSE IF Len(headers) < 3
    THEN Raise(b, "IndexError: headers[2]")
    ELSE IF StartsWith(headers[3], <<"#">>)
    THEN CallBind(Log(b, headers[3], MsgType(headers, message), Sender(headers),
                      PyFrom(headers, 2), Text(headers, message)),
                  MsgType(headers, message))
    ELSE CallBind(b, MsgType(headers, message))

\* if msgtype == '376'
On376(b, headers) == IF headers[2] = W_376 THEN [b EXCEPT !.connected = TRUE] ELSE b

\* if msgtype in ['307', '330'] and len(headers) >= 4
OnLoggedIn(b, headers) ==
    IF headers[2] \in {W_307, W_330} /\ Len(headers) >= 4
    THEN IdentAccept(b, headers[4])
    ELSE b

\* identifies the next user in the nick commands list
NextWhois(b) ==
    IF Len(b.identifyNickCommands) = 0
    THEN [b EXCEPT !.identifyLock = FALSE]
    ELSE IF ~b.outBuf.present
    THEN Raise(b, "AttributeError: outBuf is None")
    ELSE [SendBuffered(b, WhoisLine(b.identifyNickCommands[1].nick))
             EXCEPT !.whoisOut = Append(@, b.identifyNickCommands[1].nick)]

\* if msgtype == '318' and len(headers) >= 4
OnEndOfWhois(b, headers) ==
    IF headers[2] = W_318 /\ Len(headers) >= 4
    THEN NextWhois(IdentReject([b EXCEPT !.whoisOut = Answered(@, headers[4])], headers[4]))
    ELSE b

\* self.__callBind(msgtype, ...), reached unless an exception was raised
ThenCallBind(b, msgtype) == IF Ok(b) THEN CallBind(b, msgtype) ELSE b

\* the branch of __processLine for a sender without "!"
ProcessServerLine(b, headers, message) ==
    ThenCallBind(OnEndOfWhois(OnLoggedIn(On376(b, headers), headers), headers), headers[2])

\* the second half of __processLine
Dispatch(b, headers, message) ==
    IF Len(headers) < 2
    THEN b
    ELSE IF PyIn("!", headers[1])
    THEN ProcessUserLine(b, headers, message)
    ELSE ProcessServerLine(b, headers, message)

\* __processLine
ProcessLine(b, line) == Dispatch(b, Headers(line), Message(line))

\* __periodicSend after sendFromQueue()
AfterDrain(b) == IF ~b.result THEN Close(b) ELSE Enter(b, SendTick, 10, "__periodicSend")

\* __periodicSend
PeriodicSend(b, ok, resp) ==
    IF ~b.irc
    THEN b
    ELSE IF ~b.outBuf.present
    THEN Raise(b, "AttributeError: outBuf is None")
    ELSE AfterDrain(SendFromQueue(b, ok, resp))

\* what the line handed to __processLine is, for the records of identify() and
\* for the keepalive
Received(b, line) ==
    [b EXCEPT !.pongSeen = @ \/ line = PongLine,
              !.seen = [id \in Ids |->
        IF b.seen[id] # "none" \/ b.idNick[id] = <<>>
        THEN b.seen[id]
        ELSE IF line = LoggedInLine(b.idNick[id]) THEN "accept"
        ELSE IF line = EndOfWhoisLine(b.idNick[id]) THEN "reject"
        ELSE "none"]]

\* getLine() after __recv() returned data: buf is the buffer it left
Fetched(b, buf) ==
    IF buf.lines = <<>>
    THEN [b |-> Elapse([b EXCEPT !.netIn = <<>>, !.inBuf = buf], SocketTimeout),
          kind |-> "none", line |-> <<>>]
    ELSE [b |-> [b EXCEPT !.netIn = <<>>, !.inBuf = [buf EXCEPT !.lines = Tail(@)]],
          kind |-> "line", line |-> Head(buf.lines)]

\* inBuf.getLine(): err, the socket read raises socket.error; a read with nothing
\* to return ends in socket.timeout after SocketTimeout
GetLine(b, err) ==
    IF b.inBuf.lines # <<>>
    THEN [b |-> [b EXCEPT !.inBuf.lines = Tail(@)], kind |-> "line", line |-> Head(b.inBuf.lines)]
    ELSE IF err
    THEN [b |-> [b EXCEPT !.fails = @ - 1, !.ioError = "recv"], kind |-> "error", line |-> <<>>]
    ELSE IF b.netIn = <<>>
    THEN [b |-> Elapse(b, SocketTimeout), kind |-> "none", line |-> <<>>]
    ELSE Fetched(b, Recv(b.inBuf, b.netIn))

\* the last statement of __periodicRecv, reached unless an exception was raised
Rearm(b) == IF Ok(b) THEN Enter(b, RecvDelay, 1, "__periodicRecv") ELSE b

\* if not self.outBuf.sendImmediately("PONG " + ...): self.close(); return
PongSent(b) == IF ~b.result THEN Close(b) ELSE Rearm(b)

\* if line.startswith("PING"), with words = line.split()
AnswerPing(b, words, ok, resp) ==
    IF Len(words) < 2
    THEN Raise(b, "IndexError: line.split()[1]")
    ELSE PongSent(SendImmediately(b, W_PONG \o SPACE \o words[2], ok, resp))

\* if line is not None
HandleLine(b, line, ok, resp) ==
    IF StartsWith(line, W_PING)
    THEN AnswerPing(b, SplitWs(line), ok, resp)
    ELSE Rearm(ProcessLine(Received(b, line), line))

\* __periodicRecv after getLine(): the handler of socket.error calls __debugPrint
\* with one argument too many
AfterGetLine(g, ok, resp) ==
    IF g.kind = "error"
    THEN Raise(g.b, "TypeError: __debugPrint() takes 2 positional arguments")
    ELSE IF g.kind = "none"
    THEN Rearm(g.b)
    ELSE HandleLine(g.b, g.line, ok, resp)

\* __periodicRecv
PeriodicRecv(b, err, ok, resp) ==
    IF ~b.irc
    THEN b
    ELSE IF ~b.inBuf.present
    THEN Raise(b, "AttributeError: inBuf is None")
    ELSE AfterGetLine(GetLine(b, err), ok, resp)

\* ping()
Ping(b, ok, resp) ==
    IF b.unansweredPing
    THEN b
    ELSE IF ~b.outBuf.present
    THEN Raise(b, "AttributeError: ping() without an output buffer")
    ELSE Enter([SendImmediately(b, PingLine, ok, resp) EXCEPT !.unansweredPing = TRUE,
                                                              !.pongSeen = FALSE],
               ping_timeout, 1, "__handlePingTimeout")

\* __periodicPing
AfterPing(b) == IF Ok(b) THEN Enter(b, ping_interval, 1, "__periodicPing") ELSE b

PeriodicPing(b, ok, resp) == AfterPing(Ping(b, ok, resp))

\* __handlePingTimeout
HandlePingTimeout(b) == IF b.unansweredPing THEN Close(b) ELSE b

\* __handleConnectingTimeout
HandleConnectingTimeout(b) == IF ~b.connected THEN Close(b) ELSE b

(***************************************************************************)
(* ircBot: public functions                                                 *)
(***************************************************************************)
\* connect(): self.irc.connect(...) raised socket.error
Failed(b) == [b EXCEPT !.fails = @ - 1, !.ioError = "connect"]

\* connect(): the two buffers of the new socket, and NICK and USER queued;
\* greet: the server greets the new connection with a notice
Opened(b, greet) ==
    SendBuffered(
        SendBuffered([b EXCEPT !.inBuf = [present |-> TRUE, buffer |-> <<>>, lines |-> <<>>],
                               !.outBuf = [present |-> TRUE, queue |-> <<>>],
                               !.netIn = IF greet THEN GreetLine \o CRLF ELSE <<>>],
                     NickLine),
        UserLine)

\* connect(): self.__periodicRecv()
ThenRecv(b, err, ok, resp) == IF Ok(b) THEN PeriodicRecv(b, err, ok, resp) ELSE b

\* connect(): self.__sched.enter(self.connect_timeout, priority=20, ...)
ThenArm(b) ==
    IF Ok(b) THEN Enter(b, connect_timeout, 20, "__handleConnectingTimeout") ELSE b

\* connect() up to its loop; how: the outcome of self.irc.connect(...)
Connect(b, how, ok, greet, err) ==
    IF how = "refused"
    THEN Close(Failed([b EXCEPT !.irc = TRUE]))
    ELSE IF how = "timeout"
    THEN Close(Elapse(Failed([b EXCEPT !.irc = TRUE]), connect_timeout))
    ELSE ThenArm(ThenRecv(PeriodicSend([Opened(b, greet) EXCEPT !.irc = TRUE,
                                                                 !.connected = FALSE],
                                       ok, FALSE),
                          err, ok, FALSE))

\* send(): the call of __debugPrint with three arguments raises TypeError
Send(b, string) ==
    IF ~b.connected
    THEN [b EXCEPT !.hostRaised = TRUE, !.result = FALSE]
    ELSE IF ~b.outBuf.present
    THEN [b EXCEPT !.hostRaised = TRUE, !.result = FALSE]
    ELSE SendBuffered(b, string)

\* identify(): self.identifyNickCommands += [(nick, ...)]
Recorded(b, nick, id) ==
    [b EXCEPT !.identifyNickCommands = Append(@, [nick |-> nick, id |-> id]),
              !.idNick[id] = nick]

\* identify(): self.identifyLock = True, reached unless send() raised
ThenLock(b, nick) ==
    IF b.result THEN [b EXCEPT !.identifyLock = TRUE, !.whoisOut = Append(@, nick)] ELSE b

\* identify(); id names the callbacks (approvedFunc, deniedFunc) of this call
Identify(b, nick, id) ==
    IF ~b.identifyLock
    THEN ThenLock(Send(Recorded(b, nick, id), WhoisLine(nick)), nick)
    ELSE Recorded(b, nick, id)

\* bind()
Bind(b, msgtype, callback) ==
    [b EXCEPT !.binds = [m \in DOMAIN b.binds \cup {msgtype} |->
                            IF m = msgtype THEN callback ELSE b.binds[m]]]

\* stop()
Stop(b) == [b EXCEPT !.keepGoing = FALSE]

\* joinchan(), with self.default_log_length = length
JoinChan(b, channel, length) ==
    Send([b EXCEPT !.channel_data =
                 [c \in DOMAIN b.channel_data \cup {channel} |->
                     IF c = channel THEN [log |-> <<>>, log_length |-> length]
                     ELSE b.channel_data[c]]],
         W_JOIN \o SPACE \o channel)

\* say(), with self.log_own_messages left True
Say(b, recipient, message) ==
    Send(Log(b, recipient, W_PRIVMSG, name, <<recipient>>, message),
         W_PRIVMSG \o SPACE \o recipient \o SPACE \o COLON \o message)

(***************************************************************************)
(* Initial state: after ircBot.__init__ and Thread.start()                  *)
(***************************************************************************)
Constructed(buf, bytes) ==
    /\ keepGoing = TRUE
    /\ irc = FALSE
    /\ outBuf = NoOutBuf
    /\ inBuf = buf
    /\ connected = FALSE
    /\ unansweredPing = FALSE
    /\ identifyNickCommands = <<>>
    /\ identifyLock = FALSE
    /\ binds = [m \in {W_PONG} |-> "__handlePong"]
    /\ channel_data = [c \in {} |-> [log |-> <<>>, log_length |-> 0]]
    /\ sched = <<>>
    /\ pc = "start"
    /\ ret = "first_ping"
    /\ fatal = "none"
    /\ netIn = bytes
    /\ written = <<>>
    /\ fails = MaxFailures
    /\ connects = 0
    /\ nextId = 1
    /\ sends = 0
    /\ serverPings = 0
    /\ calls = [id \in Ids |-> [accept |-> 0, reject |-> 0]]
    /\ idNick = [id \in Ids |-> <<>>]
    /\ seen = [id \in Ids |-> "none"]
    /\ whoisOut = <<>>
    /\ drainAge = SendTick
    /\ drainGap = SendTick
    /\ hostRaised = FALSE
    /\ ioError = "none"
    /\ pongSeen = FALSE

Init ==
    /\ Constructed(NoInBuf, <<>>)
    /\ stream = <<>>
    /\ input = <<>>
    /\ event = NoEvent
    /\ recvParity = 0

(***************************************************************************)
(* The thread of run()                                                      *)
(***************************************************************************)
OkChoices == IF fails > 0 THEN BOOLEAN ELSE {TRUE}

ErrChoices == IF fails > 0 THEN BOOLEAN ELSE {FALSE}

HowChoices == IF fails > 0 THEN {"ok", "refused", "timeout"} ELSE {"ok"}

\* a step of the thread: an uncaught exception ends it
Step(b, next) ==
    /\ Commit(b)
    /\ pc' = IF Ok(b) THEN next ELSE "dead"

\* sched.run(blocking=False) returns at once while nothing is due: the loop
\* around it spins until the first entry is due
Spin(b) ==
    IF b.sched # <<>> /\ Head(b.sched).time > 0 THEN Elapse(b, Head(b.sched).time) ELSE b

Due(action) ==
    /\ pc \in {"pass", "connect_pass"}
    /\ sched # <<>>
    /\ Head(sched).time <= 0
    /\ Head(sched).action = action

Popped == [Bot EXCEPT !.sched = Tail(@)]

\* run(): self.connect()
RunConnect ==
    /\ pc = "start"
    /\ connects < MaxConnects
    /\ \E how \in HowChoices, ok \in OkChoices, greet \in BOOLEAN, err \in ErrChoices :
           Step(Connect(Bot, how, ok, greet, err), "connect_loop")
    /\ connects' = connects + 1
    /\ ret' = "first_ping"
    /\ UNCHANGED <<nextId, sends, serverPings>>

\* connect(): one turn of its while loop
ConnectLoop ==
    /\ pc = "connect_loop"
    /\ IF connected \/ ~irc
       THEN Step(Bot, ret)
       ELSE Step(Spin(Bot), "connect_pass")
    /\ UNCHANGED <<ret, connects, nextId, sends, serverPings>>

\* run(): self.__periodicPing()
RunFirstPing ==
    /\ pc = "first_ping"
    /\ \E ok \in OkChoices, resp \in BOOLEAN : Step(PeriodicPing(Bot, ok, resp), "loop")
    /\ UNCHANGED <<ret, connects, nextId, sends, serverPings>>

\* run(): the loop ends and self.disconnect() is called without its argument
RunExit ==
    /\ pc = "loop"
    /\ ~keepGoing
    /\ Step(Raise(Bot, "TypeError: disconnect() missing 1 required positional argument"), "done")
    /\ UNCHANGED <<ret, connects, nextId, sends, serverPings>>

\* run(): no socket, so sleep and connect again
RunReconnect ==
    /\ pc = "loop"
    /\ keepGoing
    /\ ~irc
    /\ connects < MaxConnects
    /\ \E how \in HowChoices, ok \in OkChoices, greet \in BOOLEAN, err \in ErrChoices :
           Step(Connect(Elapse(Bot, reconnect_interval), how, ok, greet, err), "connect_loop")
    /\ connects' = connects + 1
    /\ ret' = "loop"
    /\ UNCHANGED <<nextId, sends, serverPings>>

\* run(): self.__sched.run(blocking=False)
RunSched ==
    /\ pc = "loop"
    /\ keepGoing
    /\ irc
    /\ Step(Spin(Bot), "pass")
    /\ UNCHANGED <<ret, connects, nextId, sends, serverPings>>

\* sched.run: the next due entry is __periodicSend
SchedPeriodicSend ==
    /\ Due("__periodicSend")
    /\ \E ok \in OkChoices, resp \in BOOLEAN : Step(PeriodicSend(Popped, ok, resp), pc)
    /\ UNCHANGED <<ret, connects, nextId, sends, serverPings>>

\* sched.run: the next due entry is __periodicRecv
SchedPeriodicRecv ==
    /\ Due("__periodicRecv")
    /\ \E err \in ErrChoices, ok \in OkChoices, resp \in BOOLEAN :
           Step(PeriodicRecv(Popped, err, ok, resp), pc)
    /\ UNCHANGED <<ret, connects, nextId, sends, serverPings>>

\* sched.run: the next due entry is __periodicPing
SchedPeriodicPing ==
    /\ Due("__periodicPing")
    /\ \E ok \in OkChoices, resp \in BOOLEAN : Step(PeriodicPing(Popped, ok, resp), pc)
    /\ UNCHANGED <<ret, connects, nextId, sends, serverPings>>

\* sched.run: the next due entry is __handlePingTimeout
SchedPingTimeout ==
    /\ Due("__handlePingTimeout")
    /\ Step(HandlePingTimeout(Popped), pc)
    /\ UNCHANGED <<ret, connects, nextId, sends, serverPings>>

\* sched.run: the next due entry is __handleConnectingTimeout
SchedConnectingTimeout ==
    /\ Due("__handleConnectingTimeout")
    /\ Step(HandleConnectingTimeout(Popped), pc)
    /\ UNCHANGED <<ret, connects, nextId, sends, serverPings>>

\* sched.run: nothing is due, the pass returns
SchedReturn ==
    /\ pc \in {"pass", "connect_pass"}
    /\ (sched = <<>> \/ Head(sched).time > 0)
    /\ Step(Bot, IF pc = "pass" THEN "loop" ELSE "connect_loop")
    /\ UNCHANGED <<ret, connects, nextId, sends, serverPings>>

(***************************************************************************)
(* The host's thread and the server                                         *)
(***************************************************************************)
HostIdentify ==
    /\ nextId <= MaxIdentify
    /\ \E nick \in IdentNicks : Commit(Identify(Bot, nick, nextId))
    /\ nextId' = nextId + 1
    /\ UNCHANGED <<pc, ret, connects, sends, serverPings>>

HostSend ==
    /\ sends < MaxSends
    /\ \E string \in RawLines : Commit(Send(Bot, string))
    /\ sends' = sends + 1
    /\ UNCHANGED <<pc, ret, connects, nextId, serverPings>>

HostBind ==
    /\ binds[W_PONG] = "__handlePong"
    /\ Commit(Bind(Bot, W_PONG, "host"))
    /\ UNCHANGED <<pc, ret, connects, nextId, sends, serverPings>>

HostStop ==
    /\ keepGoing
    /\ Commit(Stop(Bot))
    /\ UNCHANGED <<pc, ret, connects, nextId, sends, serverPings>>

\* the server sends a PING of its own on the open connection
ServerPing ==
    /\ irc
    /\ inBuf.present
    /\ serverPings < MaxServerPings
    /\ \E tok \in PingTokens :
           Commit([Bot EXCEPT !.netIn = @ \o ServerPingLine(tok) \o CRLF])
    /\ serverPings' = serverPings + 1
    /\ UNCHANGED <<pc, ret, connects, nextId, sends>>

(***************************************************************************)
(* The channel log: joinchan(), say() and __processLine applied to channel  *)
(* messages, for every default_log_length up to MaxLogLength                *)
(***************************************************************************)
HostJoin ==
    /\ Chan \notin DOMAIN channel_data
    /\ \E length \in 0..MaxLogLength : Commit(JoinChan(Bot, Chan, length))
    /\ UNCHANGED <<pc, ret, connects, nextId, sends, serverPings>>

HostSay ==
    /\ Chan \in DOMAIN channel_data
    /\ Len(channel_data[Chan].log) <= MaxLog
    /\ \E message \in SayMessages : Commit(Say(Bot, Chan, message))
    /\ UNCHANGED <<pc, ret, connects, nextId, sends, serverPings>>

\* __processLine applied to a PRIVMSG or ACTION of the channel
ChannelMessage ==
    /\ Chan \in DOMAIN channel_data
    /\ Len(channel_data[Chan].log) <= MaxLog
    /\ \E line \in ChanLines : Commit(ProcessLine(Bot, line))
    /\ UNCHANGED <<pc, ret, connects, nextId, sends, serverPings>>

NextLog ==
    \/ HostJoin
    \/ HostSay
    \/ ChannelMessage

SpecLog == Init /\ [][NextLog]_vars

(***************************************************************************)
(* The input buffer alone: a new ircInputBuffer on a socket whose peer      *)
(* sends the bytes of stream, received in chunks of any size                *)
(***************************************************************************)
Streams == UNION {[1..n -> Bytes] : n \in 0..MaxStream}

InitFramer ==
    /\ \E bytes \in Streams : Constructed(NewInBuf, bytes) /\ stream = bytes
    /\ input = <<>>
    /\ event = NoEvent
    /\ recvParity = 0

\* one call of __recv: recv(4096) returns the next n bytes
RecvChunk ==
    /\ netIn # <<>>
    /\ \E n \in 1..Len(netIn) :
           Commit([Bot EXCEPT !.inBuf = Recv(@, SubSeq(netIn, 1, n)),
                              !.netIn = SubSeq(@, n + 1, Len(@))])
    /\ UNCHANGED <<pc, ret, connects, nextId, sends, serverPings>>

NextFramer == RecvChunk

SpecFramer == InitFramer /\ [][NextFramer]_vars

(***************************************************************************)
(* The parser alone: the first half of __processLine applied to a line      *)
(***************************************************************************)
\* one to MaxParams params
ParamLists == UNION {[1..k -> Params] : k \in 1..MaxParams}

WireLines ==
    {WireLine(prefix, cmd, params, trailing) :
         prefix \in Prefixes, cmd \in Commands, params \in ParamLists, trailing \in Trailings}

ServerLines ==
    {WireLine(prefix, cmd, params, trailing) :
         prefix \in ServerPrefixes, cmd \in ServerCommands, params \in ParamLists,
         trailing \in ServerTrailings}

InitParser ==
    /\ Constructed(NoInBuf, <<>>)
    /\ stream = <<>>
    /\ input \in WireLines \cup ServerLines
    /\ event = NoEvent
    /\ recvParity = 0

Parse ==
    /\ event = NoEvent
    /\ event' = Event(input)
    /\ UNCHANGED <<engine, stream, input, recvParity>>

NextParser == Parse

SpecParser == InitParser /\ [][NextParser]_vars

(***************************************************************************)
(* send() on a host thread while the thread of run() is inside close(): the *)
(* host may run between any two statements of close(), here between the     *)
(* dropping of the buffers and the closing of the socket                    *)
(***************************************************************************)
\* __handlePingTimeout up to self.inBuf = None of close()
PingTimeoutCloseBuffers ==
    /\ Due("__handlePingTimeout")
    /\ unansweredPing
    /\ Commit(CloseBuffers(Popped))
    /\ pc' = IF pc = "pass" THEN "closing" ELSE "connect_closing"
    /\ UNCHANGED <<ret, connects, nextId, sends, serverPings>>

\* __handlePingTimeout with no PING unanswered
PingTimeoutPasses ==
    /\ Due("__handlePingTimeout")
    /\ ~unansweredPing
    /\ Step(HandlePingTimeout(Popped), pc)
    /\ UNCHANGED <<ret, connects, nextId, sends, serverPings>>

\* the rest of close(), from self.irc.close() on
PingTimeoutCloseSocket ==
    /\ pc \in {"closing", "connect_closing"}
    /\ Step(CloseSocket(Bot), IF pc = "closing" THEN "pass" ELSE "connect_pass")
    /\ UNCHANGED <<ret, connects, nextId, sends, serverPings>>

NextClose ==
    \/ RunConnect
    \/ ConnectLoop
    \/ RunFirstPing
    \/ RunReconnect
    \/ RunSched
    \/ SchedPeriodicSend
    \/ SchedPeriodicRecv
    \/ SchedPeriodicPing
    \/ PingTimeoutCloseBuffers
    \/ PingTimeoutPasses
    \/ PingTimeoutCloseSocket
    \/ SchedConnectingTimeout
    \/ SchedReturn
    \/ HostSend

SpecClose == Init /\ [][NextClose]_vars

(***************************************************************************)
(* getLine() statement by statement, called again and again on a socket     *)
(* whose peer sends a stream and then stays silent or closes the stream     *)
(***************************************************************************)
InitGetLine ==
    /\ \E bytes \in Streams, closed \in BOOLEAN :
           /\ Constructed(NewInBuf, IF closed THEN Append(bytes, EndOfStream) ELSE bytes)
           /\ stream = bytes
    /\ input = <<>>
    /\ event = NoEvent
    /\ recvParity = 0

\* the bytes of netIn the peer sent before it closed the stream
Unread(bytes) ==
    IF bytes # <<>> /\ bytes[Len(bytes)] = EndOfStream
    THEN SubSeq(bytes, 1, Len(bytes) - 1)
    ELSE bytes

\* a caller calls getLine()
GetLineCall ==
    /\ pc \in {"start", "line", "timeout"}
    /\ pc' = "getline"
    /\ CommitEngine(Bot)
    /\ UNCHANGED <<ret, connects, nextId, sends, serverPings, stream, input, event, recvParity>>

\* while len(self.lines) == 0: __recv(), and recv(4096) returns the next n bytes
GetLineRecv ==
    /\ pc = "getline"
    /\ inBuf.lines = <<>>
    /\ \E n \in 1..Len(Unread(netIn)) :
           CommitEngine([Bot EXCEPT !.inBuf = Recv(@, SubSeq(netIn, 1, n)),
                                    !.netIn = SubSeq(@, n + 1, Len(@))])
    /\ UNCHANGED <<pc, ret, connects, nextId, sends, serverPings, stream, input, event,
                   recvParity>>

\* while len(self.lines) == 0: __recv(), and recv(4096) returns b"" at once
\* because the peer has closed the stream
GetLineRecvClosed ==
    /\ pc = "getline"
    /\ inBuf.lines = <<>>
    /\ netIn = <<EndOfStream>>
    /\ CommitEngine([Bot EXCEPT !.inBuf = Recv(@, <<>>)])
    /\ recvParity' = 1 - recvParity
    /\ UNCHANGED <<pc, ret, connects, nextId, sends, serverPings, stream, input, event>>

\* while len(self.lines) == 0: __recv() raises socket.timeout, return None
GetLineTimeout ==
    /\ pc = "getline"
    /\ inBuf.lines = <<>>
    /\ netIn = <<>>
    /\ pc' = "timeout"
    /\ CommitEngine(Bot)
    /\ UNCHANGED <<ret, connects, nextId, sends, serverPings, stream, input, event, recvParity>>

\* line = self.lines[0]; self.lines = self.lines[1:]; return line
GetLineReturn ==
    /\ pc = "getline"
    /\ inBuf.lines # <<>>
    /\ pc' = "line"
    /\ CommitEngine([Bot EXCEPT !.inBuf.lines = Tail(@)])
    /\ UNCHANGED <<ret, connects, nextId, sends, serverPings, stream, input, event, recvParity>>

\* the statements of getLine()
GetLineRuns ==
    \/ GetLineRecv
    \/ GetLineRecvClosed
    \/ GetLineTimeout
    \/ GetLineReturn

NextGetLine ==
    \/ GetLineCall
    \/ GetLineRecv
    \/ GetLineRecvClosed
    \/ GetLineTimeout
    \/ GetLineReturn

\* the thread inside getLine() keeps running: its loop has no blocking statement
\* other than recv(), which returns or times out
SpecGetLine == InitGetLine /\ [][NextGetLine]_vars /\ WF_vars(GetLineRuns)

(***************************************************************************)
(* identify() on a host thread while the thread of run() handles a 318: the *)
(* host may run between any two statements of __processLine, here between   *)
(* the test len(self.identifyNickCommands) == 0 and self.identifyLock = False *)
(***************************************************************************)
\* __processLine for the 318 of g.line up to the test of the list's length
Rejected(g) ==
    IdentReject([Received(g.b, g.line) EXCEPT !.whoisOut = Answered(@, Headers(g.line)[4])],
                Headers(g.line)[4])

\* getLine() returned a 318 whose handling finds no record pending
EndOfWhoisEmpties(g) ==
    /\ g.kind = "line"
    /\ ~StartsWith(g.line, W_PING)
    /\ Len(Headers(g.line)) >= 4
    /\ ~PyIn("!", Headers(g.line)[1])
    /\ Headers(g.line)[2] = W_318
    /\ Len(Rejected(g).identifyNickCommands) = 0

\* __periodicRecv reads a 318, and __processLine finds the list empty
RecvEndOfWhoisTest ==
    /\ Due("__periodicRecv")
    /\ irc
    /\ inBuf.present
    /\ \E err \in ErrChoices :
           /\ EndOfWhoisEmpties(GetLine(Popped, err))
           /\ Commit(Rejected(GetLine(Popped, err)))
    /\ pc' = IF pc = "pass" THEN "unlocking" ELSE "connect_unlocking"
    /\ UNCHANGED <<ret, connects, nextId, sends, serverPings>>

\* self.identifyLock = False, and the rest of __processLine and __periodicRecv
RecvEndOfWhoisUnlock ==
    /\ pc \in {"unlocking", "connect_unlocking"}
    /\ Step(Rearm(ThenCallBind([Bot EXCEPT !.identifyLock = FALSE], W_318)),
            IF pc = "unlocking" THEN "pass" ELSE "connect_pass")
    /\ UNCHANGED <<ret, connects, nextId, sends, serverPings>>

\* every other run of __periodicRecv
RecvOther ==
    /\ Due("__periodicRecv")
    /\ \E err \in ErrChoices, ok \in OkChoices, resp \in BOOLEAN :
           /\ ~(irc /\ inBuf.present /\ EndOfWhoisEmpties(GetLine(Popped, err)))
           /\ Step(PeriodicRecv(Popped, err, ok, resp), pc)
    /\ UNCHANGED <<ret, connects, nextId, sends, serverPings>>

NextUnlock ==
    \/ RunConnect
    \/ ConnectLoop
    \/ RunFirstPing
    \/ RunReconnect
    \/ RunSched
    \/ SchedPeriodicSend
    \/ RecvEndOfWhoisTest
    \/ RecvEndOfWhoisUnlock
    \/ RecvOther
    \/ SchedPeriodicPing
    \/ SchedPingTimeout
    \/ SchedConnectingTimeout
    \/ SchedReturn
    \/ HostIdentify

SpecUnlock == Init /\ [][NextUnlock]_vars

\* the engine with a host that sends, rebinds PONG and stops, and a server that pings
Next ==
    \/ RunConnect
    \/ ConnectLoop
    \/ RunFirstPing
    \/ RunExit
    \/ RunReconnect
    \/ RunSched
    \/ SchedPeriodicSend
    \/ SchedPeriodicRecv
    \/ SchedPeriodicPing
    \/ SchedPingTimeout
    \/ SchedConnectingTimeout
    \/ SchedReturn
    \/ HostSend
    \/ HostBind
    \/ HostStop
    \/ ServerPing

Spec == Init /\ [][Next]_vars

\* the engine with a host that calls identify() and sends a WHOIS of its own
NextIdentify ==
    \/ RunConnect
    \/ ConnectLoop
    \/ RunFirstPing
    \/ RunReconnect
    \/ RunSched
    \/ SchedPeriodicSend
    \/ SchedPeriodicRecv
    \/ SchedPeriodicPing
    \/ SchedPingTimeout
    \/ SchedConnectingTimeout
    \/ SchedReturn
    \/ HostIdentify
    \/ HostSend

SpecIdentify == Init /\ [][NextIdentify]_vars

(***************************************************************************)
(* Properties                                                               *)
(***************************************************************************)
\* C1: at any time at most one WHOIS issued by the identify correlator is
\* outstanding (queued, or sent and not yet answered by its 318), also when a
\* 318 names a nick other than the head of the pending list.
C1_OneWhoisOutstanding == Len(whoisOut) <= 1

\* C2: any two writes of queued messages by the queue drain are at least one
\* tick apart, in every execution, closes and reconnects included.
C2_DrainSpacing == drainGap >= SendTick

\* C3: when a socket read raises a transport error on an established
\* connection, the step leaves the connection closed (no socket, no buffers)
\* and the thread of run() alive, so that it goes on to reconnect.
C3_ReadErrorReconnects ==
    [][(connected /\ ioError' = "recv")
           => (~irc' /\ ~outBuf'.present /\ ~inBuf'.present /\ pc' # "dead")]_vars

\* C4: under any sequence of network events no step of the run loop and no
\* scheduled action calls close() while no socket exists, and ping() never uses
\* the output buffer while it is absent.
C4_NoFatalFailure ==
    fatal \notin {"AttributeError: close() without a socket",
                  "AttributeError: ping() without an output buffer"}

\* __periodicPing runs in this step: from the scheduler, or as the call in run()
PingRuns ==
    \/ Due("__periodicPing") /\ sched' # sched
    \/ pc = "first_ping" /\ pc' # pc

\* C5: every run of the periodic ping on an open connection writes a keepalive
\* PING to the socket (unless the write itself fails), also after a close and
\* reconnect and after a keepalive timeout.
C5_PingEveryInterval ==
    [][(PingRuns /\ irc /\ outBuf.present /\ ioError' = "none")
           => written' = <<PingLine>>]_vars

\* the timeout check of the keepalive runs in this step
PingTimeoutRuns == Due("__handlePingTimeout") /\ sched' # sched

\* C6: when the timeout check of a keepalive PING fires on an open connection,
\* it closes the connection if no PONG was received since the PING was sent,
\* and leaves the connection as it is if the PONG was received first.
C6_TimeoutCheck ==
    [][(PingTimeoutRuns /\ irc)
           => IF pongSeen
              THEN irc' /\ connected' = connected /\ outBuf' = outBuf /\ inBuf' = inBuf
              ELSE ~irc' /\ ~connected']_vars

\* C7: send(raw) while no session is connected changes no engine state,
\* enqueues and writes nothing, and returns without raising.
C7_SendWhileDisconnected ==
    [][(sends' = sends + 1 /\ ~connected)
           => /\ hostRaised' = hostRaised
              /\ written' = <<>>
              /\ UNCHANGED <<keepGoing, irc, outBuf, inBuf, connected, unansweredPing,
                             identifyNickCommands, identifyLock, binds, channel_data,
                             sched, pc>>]_vars

\* C8: while the engine is connected and records of identify() whose WHOIS was
\* issued are pending, a WHOIS of the correlator is outstanding (queued, or sent
\* and its answer not yet processed), so that the records will be resolved; this
\* includes records whose WHOIS was queued or in flight when a connection closed.
C8_PendingIsOutstanding ==
    (pc # "dead" /\ connected /\ identifyLock /\ identifyNickCommands # <<>>)
        => whoisOut # <<>>

\* C9: each record of identify() has a continuation invoked at most once in
\* total: a record whose first numeric was an accept (307/330) has onAccept
\* invoked once and onReject never, also after the 318 that follows; a record
\* whose first numeric was the 318 has onReject invoked once and onAccept never.
C9_AtMostOnce ==
    \A id \in Ids :
        /\ calls[id].accept + calls[id].reject <= 1
        /\ seen[id] = "accept" => calls[id] = [accept |-> 1, reject |-> 0]
        /\ seen[id] = "reject" => calls[id] = [accept |-> 0, reject |-> 1]
        /\ seen[id] = "none" => calls[id] = [accept |-> 0, reject |-> 0]

\* one record was accepted and the 318 after it processed, another was rejected
C9_Witness ==
    /\ \E i, j \in Ids :
           /\ seen[i] = "accept" /\ calls[i] = [accept |-> 1, reject |-> 0]
           /\ seen[j] = "reject" /\ calls[j] = [accept |-> 0, reject |-> 1]
    /\ identifyNickCommands = <<>>
    /\ ~identifyLock

\* __periodicRecv runs in this step on an open connection
RecvRuns == Due("__periodicRecv") /\ sched' # sched /\ irc /\ inBuf.present

\* the line getLine() returns in this step is the server's PING with token tok
PingArrives(tok) ==
    /\ ioError' # "recv"
    /\ GetLine(Bot, FALSE).kind = "line"
    /\ GetLine(Bot, FALSE).line = ServerPingLine(tok)

\* C10: when a PING line is received, the PONG carrying its token is written to
\* the socket in the same receive step and the output queue is left as it was;
\* if that write fails, nothing is written and the connection is closed.
C10_PongBypassesQueue ==
    [][\A tok \in PingTokens :
           (RecvRuns /\ PingArrives(tok))
               => IF ioError' = "send"
                  THEN written' = <<>> /\ ~irc'
                  ELSE written' = <<W_PONG \o SPACE \o COLON \o tok>> /\ outBuf' = outBuf]_vars

\* a PONG was written while messages were waiting in the output queue
C10_Witness ==
    /\ written = <<W_PONG \o SPACE \o COLON \o <<"t">>>>
    /\ outBuf.present
    /\ outBuf.queue # <<>>

\* what a log of capacity cap must be after an append to the log old: the most
\* recent entries of old with the new entry, and no more than cap of them
LogKeepsRecent(old, new, cap) ==
    /\ Len(new) <= cap
    /\ new # <<>>
    /\ Len(new) = Min(cap, Len(old) + 1)
    /\ new = SubSeq(Append(old, new[Len(new)]), Len(old) + 2 - Len(new), Len(old) + 1)

\* C11: for every joined channel and every capacity (0 and 1 included), after
\* any sequence of appends (channel PRIVMSG/ACTION received, own say() messages)
\* the log is no longer than its capacity and holds the most recent entries.
C11_LogWithinCapacity ==
    [][\A c \in DOMAIN channel_data :
           (c \in DOMAIN channel_data' /\ channel_data'[c].log # channel_data[c].log)
               => LogKeepsRecent(channel_data[c].log, channel_data'[c].log,
                                 channel_data[c].log_length)]_vars

\* C12: for every byte stream and every split of it into receive chunks, a
\* split inside a CRLF or inside a multi-byte character included, the lines
\* framed once every chunk is fed are the lines framed from the whole stream
\* fed in one receive, in the same order.
C12_ChunkIndependence ==
    (inBuf.present /\ netIn = <<>>) => inBuf.lines = Recv(NewInBuf, stream).lines

\* the prefix up to its first "!"
UpToBang(prefix) ==
    SubSeq(prefix, 1, (CHOOSE k \in 1..Len(prefix) :
                           prefix[k] = "!" /\ \A j \in 1..(k - 1) : prefix[j] # "!") - 1)

\* C13: for every well-formed line ":prefix CMD p1 p2 :trailing" whose prefix
\* contains "!" (a PRIVMSG carrying a CTCP ACTION, which the parser rewrites,
\* left aside), the parsed event has exactly the command CMD, the params
\* [p1, p2], the trailing text after the delimiter colon, and as sender the
\* prefix truncated at its first "!".
C13_ParsedExactly ==
    \A prefix \in Prefixes, cmd \in Commands, params \in ParamLists, trailing \in Trailings :
        (/\ input = WireLine(prefix, cmd, params, trailing)
         /\ event # NoEvent
         /\ ~(cmd = W_PRIVMSG /\ trailing = ActionTrailing))
            => event = [parsed |-> TRUE, dispatched |-> TRUE, msgtype |-> cmd,
                        sender |-> UpToBang(prefix), headers |-> params,
                        message |-> trailing]

\* C14: once stop() was called, the run loop ends at its next iteration with
\* the connection closed (no socket) and without raising, whether the engine
\* is connected or waiting to reconnect at that moment.
C14_StopExitsCleanly ==
    [][(pc = "loop" /\ ~keepGoing /\ pc' # pc)
           => (pc' = "done" /\ ~irc' /\ fatal' = "none")]_vars

\* C15: send() called on a host thread while the thread of run() is inside
\* close() never uses an output buffer that close() has already removed: when
\* send() finds the engine connected, the output buffer is there.
C15_SendNeverUsesRemovedBuffer ==
    [][(sends' = sends + 1 /\ connected) => outBuf.present]_vars

\* the connect-timeout check at the head of the scheduler runs in this step,
\* and a later one is armed: the one that runs was armed by an earlier connect()
StaleConnectingTimeoutRuns ==
    /\ Due("__handleConnectingTimeout")
    /\ sched' # sched
    /\ \E i \in 2..Len(sched) : sched[i].action = "__handleConnectingTimeout"

\* C16: a timeout check armed for one connection attempt never closes a later
\* one: when the check of attempt k runs during attempt k+1, attempt k+1 stays
\* open.
C16_StaleTimeoutLeavesOpen == [][(StaleConnectingTimeoutRuns /\ irc) => irc']_vars

\* the line getLine() returns in this step is the server's PONG
PongArrives ==
    /\ ioError' # "recv"
    /\ GetLine(Bot, FALSE).kind = "line"
    /\ GetLine(Bot, FALSE).line = PongLine

\* C17: a PONG received while a keepalive PING is outstanding clears the
\* awaiting-pong flag, whatever handlers the host has registered with bind(),
\* a handler bound to the command PONG included.
C17_PongClearsFlag ==
    [][(RecvRuns /\ PongArrives /\ unansweredPing) => ~unansweredPing']_vars

\* C18: every getLine() call returns, with a line or with the timeout signal,
\* for every behaviour of the socket, receives that return zero bytes because
\* the peer closed the stream included.
C18_GetLineReturns == (pc = "getline") ~> (pc \in {"line", "timeout"})

\* C19: with identify() on a host thread concurrent with the handling of a 318
\* on the thread of run(), once both have finished a non-empty pending list
\* implies that the lock is held and a WHOIS for the head record is issued.
C19_PendingAfterUnlockIsLocked ==
    [][(pc \in {"unlocking", "connect_unlocking"} /\ pc' \notin {"unlocking", "connect_unlocking"}
        /\ identifyNickCommands' # <<>>)
           => (identifyLock' /\ PyIn(identifyNickCommands'[1].nick, whoisOut'))]_vars

\* C20: for a line with a server prefix (no "!" and no "@" anywhere in the
\* line) and a trailing segment, the parsed trailing text is the text strictly
\* after the delimiter colon and the params are the header words before it.
C20_ServerTrailing ==
    \A prefix \in ServerPrefixes, cmd \in ServerCommands, params \in ParamLists,
       trailing \in ServerTrailings :
        (input = WireLine(prefix, cmd, params, trailing) /\ event # NoEvent)
            => (event.dispatched /\ event.headers = params /\ event.message = trailing)

=============================================================================
